---------------------------- MODULE Spec2Model ----------------------------
(***************************************************************************)
(* Model of src/channels/plugins/onboarding/helpers.ts: the allowlist      *)
(* helpers of the onboarding wizard (mergeAllowFromEntries,                *)
(* addWildcardAllowFrom, the channel config patchers) and the retry loop   *)
(* promptResolvedAllowFrom.                                                *)
(*                                                                         *)
(* JavaScript values are tagged records: [undef |-> TRUE], [null |-> TRUE],*)
(* [str |-> s] with s a sequence of one-character strings, [num |-> n],    *)
(* and [list |-> <<...>>] where an array may also be null or undefined.    *)
(* A plain object is a function from its own keys to values; a missing     *)
(* key is an absent (undefined) property.                                  *)
(***************************************************************************)
EXTENDS Integers, Sequences, FiniteSets, TLC

VARIABLES
    \* mergeAllowFromEntries applied to drawn inputs
    mCurrent, mAdditions, mOut, mAgain,
    \* the channel config patchers applied to a configuration snapshot
    cfg, cfgIn, lastOp, steps,
    \* promptResolvedAllowFrom: its parameters, the await it is suspended at,
    \* the locals of the current round, and how it ended
    existing, token, pc, entry, parts, parsed, results, pendingNote,
    outcome, failure,
    \* the calls it has made to its collaborators
    calls, textArg, resolveArg, parseIdArgs,
    \* history: identifiers accepted in rounds that failed, and the call counts
    \* at the moment the prompter aborted
    earlierIds, abortedAt,
    \* resolveAccountIdForConfigure: its parameters, where it is, its prompt
    aOverride, aShouldPrompt, aDefault, aPc, aPromptCalls, aPromptArg,
    aAnswer, aResult,
    \* normalizeAllowFromEntries applied to drawn inputs, and the values its
    \* normalizer was applied to
    nEntries, nNormalizer, nOut, nApplied,
    \* splitOnboardingEntries applied to a drawn text
    sRaw, sOut

mergeVars == <<mCurrent, mAdditions, mOut, mAgain>>
cfgVars == <<cfg, cfgIn, lastOp, steps>>
loopVars ==
    <<existing, token, pc, entry, parts, parsed, results, pendingNote, outcome,
      failure, calls, textArg, resolveArg, parseIdArgs, earlierIds, abortedAt>>
acctVars ==
    <<aOverride, aShouldPrompt, aDefault, aPc, aPromptCalls, aPromptArg,
      aAnswer, aResult>>
normVars == <<nEntries, nNormalizer, nOut, nApplied>>
splitVars == <<sRaw, sOut>>
auxVars == <<acctVars, normVars, splitVars>>
vars == <<mergeVars, cfgVars, loopVars, auxVars>>

--------------------------------------------------------------------------
(* JavaScript values *)

Undef == [undef |-> TRUE]
Null == [null |-> TRUE]
Str(s) == [str |-> s]
Num(n) == [num |-> n]
List(l) == [list |-> l]

IsStr(v) == "str" \in DOMAIN v
IsNum(v) == "num" \in DOMAIN v
IsNullish(v) == "undef" \in DOMAIN v \/ "null" \in DOMAIN v

\* !v of a nullable text or number
IsFalsy(v) ==
    \/ IsNullish(v)
    \/ IsStr(v) /\ v.str = <<>>
    \/ IsNum(v) /\ v.num = 0

\* The characters String.prototype.trim removes, among those of the model.
Whitespace == {" ", "\n"}

DigitChars == <<"0", "1", "2", "3", "4", "5", "6", "7", "8", "9">>

RECURSIVE NatToText(_)
\* String(n) of a non-negative integer: its decimal digits.
NatToText(n) ==
    IF n < 10 THEN <<DigitChars[n + 1]>>
    ELSE NatToText(n \div 10) \o <<DigitChars[(n % 10) + 1]>>

\* String(v) (helpers.ts:13, :24, :167)
JsString(v) ==
    IF IsStr(v) THEN v.str
    ELSE IF IsNum(v) THEN NatToText(v.num)
    ELSE IF "null" \in DOMAIN v THEN <<"n", "u", "l", "l">>
    ELSE <<"u", "n", "d", "e", "f", "i", "n", "e", "d">>

RECURSIVE TrimStart(_)
TrimStart(s) ==
    IF s # <<>> /\ Head(s) \in Whitespace THEN TrimStart(Tail(s)) ELSE s

RECURSIVE TrimEnd(_)
TrimEnd(s) ==
    IF s # <<>> /\ s[Len(s)] \in Whitespace
    THEN TrimEnd(SubSeq(s, 1, Len(s) - 1))
    ELSE s

\* String.prototype.trim
Trim(s) == TrimEnd(TrimStart(s))

\* list.map((v) => String(v).trim()): every element becomes a trimmed JS string.
MapStringTrim(l) == [i \in 1..Len(l) |-> Str(Trim(JsString(l[i])))]

\* strings.filter(Boolean): the empty string is the only falsy string.
FilterBoolean(l) == SelectSeq(l, LAMBDA v : v.str # <<>>)

Includes(l, x) == \E i \in 1..Len(l) : l[i] = x

RECURSIVE SetSpreadFrom(_, _)
SetSpreadFrom(acc, rest) ==
    IF rest = <<>> THEN acc
    ELSE SetSpreadFrom(IF Includes(acc, Head(rest)) THEN acc
                       ELSE Append(acc, Head(rest)),
                       Tail(rest))

\* [...new Set(l)]: a Set iterates in insertion order, first insertion kept.
SetSpread(l) == SetSpreadFrom(<<>>, l)

\* (a ?? []) of a nullable array
OrEmpty(a) == IF IsNullish(a) THEN <<>> ELSE a.list

--------------------------------------------------------------------------
(* helpers.ts:12-26 *)

Wildcard == Str(<<"*">>)

addWildcardAllowFrom(allowFrom) ==
    LET next == FilterBoolean(MapStringTrim(OrEmpty(allowFrom)))
    IN  IF ~Includes(next, Wildcard) THEN Append(next, Wildcard) ELSE next

\* mutant: the merged values are returned without the Set pass
mergeAllowFromEntries_NoDedupe(current, additions) ==
    FilterBoolean(MapStringTrim(OrEmpty(current) \o additions))

mergeAllowFromEntries(current, additions) ==
    LET merged == FilterBoolean(MapStringTrim(OrEmpty(current) \o additions))
    IN  SetSpread(merged)

--------------------------------------------------------------------------
(* Bounded inputs *)

BoundedSeq(S, n) == UNION {[1..k -> S] : k \in 0..n}

\* Raw allowlist values: text and numbers, some untrimmed, empty or blank,
\* some equal only after conversion to text.
RawVals ==
    { Str(<<"a">>), Str(<<" ", "a", " ">>), Str(<<>>), Str(<<" ">>),
      Num(1), Str(<<"1">>) }

\* Total number of values handed to one mergeAllowFromEntries call.
MaxMerge == 3
\* Length of the list merged into a result a second time.
MaxAgain == 2

--------------------------------------------------------------------------
(* mergeAllowFromEntries applied to drawn inputs *)

None == <<>>
Some(x) == <<x>>

MergeInit ==
    /\ mAdditions \in BoundedSeq(RawVals, MaxMerge)
    /\ mCurrent \in {Undef, Null}
          \cup {List(l) : l \in BoundedSeq(RawVals, MaxMerge - Len(mAdditions))}
    /\ mOut = None
    /\ mAgain = None

\* result = mergeAllowFromEntries(current, additions)
MergeCall ==
    /\ mOut = None
    /\ mOut' = Some(mergeAllowFromEntries(mCurrent, mAdditions))
    /\ UNCHANGED <<mCurrent, mAdditions, mAgain>>
    /\ UNCHANGED <<cfgVars, loopVars, auxVars>>

\* mergeAllowFromEntries(result, extra): the result merged once more, with the
\* same additions or with identifiers it already holds.
MergeAgain ==
    /\ mOut # None
    /\ mAgain = None
    /\ \E extra \in {mAdditions}
            \cup BoundedSeq({mOut[1][i] : i \in 1..Len(mOut[1])}, MaxAgain) :
          mAgain' = Some([extra |-> extra,
                          out |-> mergeAllowFromEntries(List(mOut[1]), extra)])
    /\ UNCHANGED <<mCurrent, mAdditions, mOut>>
    /\ UNCHANGED <<cfgVars, loopVars, auxVars>>

--------------------------------------------------------------------------
(* Configuration snapshots (helpers.ts:87-143) *)

\* {}: the object with no own property
EmptyObj == [k \in {} |-> TRUE]

Has(o, k) == k \in DOMAIN o

\* {...o, [k]: v}
With(o, k, v) == (k :> v) @@ o

\* o?.[k] as the source of a spread: an absent property spreads to nothing.
ObjAt(o, k) == IF Has(o, k) THEN o[k] ELSE EmptyObj

\* o?.[k] of an array property: the array, or undefined when it is absent.
ListAt(o, k) == IF Has(o, k) THEN List(o[k]) ELSE Undef

\* imported from routing/session-key.js (helpers.ts:4)
DEFAULT_ACCOUNT_ID == "default"

\* mutant: the default branch is taken for every account id
setAccountAllowFromForChannel_AlwaysTopLevel(c, channel, accountId, allowFrom) ==
    With(c, "channels",
         With(ObjAt(c, "channels"), channel,
              With(ObjAt(ObjAt(c, "channels"), channel), "allowFrom", allowFrom)))

setAccountAllowFromForChannel(c, channel, accountId, allowFrom) ==
    LET channels == ObjAt(c, "channels")
        chan == ObjAt(channels, channel)
        accounts == ObjAt(chan, "accounts")
    IN  IF accountId = DEFAULT_ACCOUNT_ID
        THEN With(c, "channels",
                  With(channels, channel, With(chan, "allowFrom", allowFrom)))
        ELSE With(c, "channels",
                  With(channels, channel,
                       With(chan, "accounts",
                            With(accounts, accountId,
                                 With(ObjAt(accounts, accountId),
                                      "allowFrom", allowFrom)))))

\* mutant: the wildcard list is written for every policy
setChannelDmPolicyWithAllowFrom_AlwaysWildcard(c, channel, dmPolicy) ==
    LET channels == ObjAt(c, "channels")
        chan == ObjAt(channels, channel)
    IN  With(c, "channels",
             With(channels, channel,
                  With(With(chan, "dmPolicy", dmPolicy), "allowFrom",
                       addWildcardAllowFrom(ListAt(chan, "allowFrom")))))

setChannelDmPolicyWithAllowFrom(c, channel, dmPolicy) ==
    LET channels == ObjAt(c, "channels")
        chan == ObjAt(channels, channel)
        allowFrom == IF dmPolicy = "open"
                     THEN List(addWildcardAllowFrom(ListAt(chan, "allowFrom")))
                     ELSE Undef
        withPolicy == With(chan, "dmPolicy", dmPolicy)
    IN  With(c, "channels",
             With(channels, channel,
                  \* an array is truthy, undefined is not
                  IF ~IsNullish(allowFrom)
                  THEN With(withPolicy, "allowFrom", allowFrom.list)
                  ELSE withPolicy))

ChannelNames == {"imessage", "signal"}
DmPolicies == {"open", "pairing", "disabled"}
AccountIds == {DEFAULT_ACCOUNT_ID, "work"}

\* allowFrom lists handed to setAccountAllowFromForChannel
NewAllowFroms == { <<Str(<<"n">>)>>, <<>> }

\* per-account entries of a channel
AccountMaps ==
    { [work |-> [allowFrom |-> <<Str(<<"w">>)>>, enabled |-> TRUE],
       alt |-> [allowFrom |-> <<Str(<<"x">>)>>]],
      [default |-> [allowFrom |-> <<Str(<<"d">>)>>],
       alt |-> [enabled |-> TRUE]] }

\* channel entries a snapshot starts with
ChannelCfgs ==
    { EmptyObj,
      [dmPolicy |-> "pairing", allowFrom |-> <<Str(<<"+", "1">>)>>],
      [dmPolicy |-> "open", allowFrom |-> <<Str(<<"*">>)>>],
      [enabled |-> TRUE, allowFrom |-> <<Str(<<" ", "a">>), Num(1), Str(<<>>)>>],
      [allowFrom |-> <<Str(<<"*", " ">>), Str(<<"a">>)>>],
      [allowFrom |-> <<Str(<<" ", "*">>), Str(<<"*", " ">>)>>],
      [dmPolicy |-> "pairing", allowFrom |-> <<Num(1), Str(<<"1">>), Str(<<"*">>)>>] }
    \cup { With(ch, "accounts", am) :
             ch \in { [enabled |-> TRUE],
                      [enabled |-> TRUE, allowFrom |-> <<Str(<<"o">>)>>] },
             am \in AccountMaps }

InitCfgs ==
    { EmptyObj, [gateway |-> TRUE] }
    \cup { [channels |-> EmptyObj] }
    \cup { [channels |-> With(EmptyObj, "imessage", ch)] : ch \in ChannelCfgs }
    \cup { [gateway |-> TRUE,
            channels |-> [imessage |-> ch,
                          signal |-> [enabled |-> TRUE,
                                      allowFrom |-> <<Str(<<"s">>)>>,
                                      accounts |-> [work |-> [enabled |-> TRUE]]]]] :
             ch \in ChannelCfgs }

\* Number of patcher calls applied in a row to one snapshot.
MaxSteps == 2

CfgInit ==
    /\ cfg \in InitCfgs
    /\ cfgIn = cfg
    /\ lastOp = [op |-> "none"]
    /\ steps = 0

SetAccountAllowFrom ==
    /\ steps < MaxSteps
    /\ \E channel \in ChannelNames, accountId \in AccountIds,
          allowFrom \in NewAllowFroms :
          /\ cfg' = setAccountAllowFromForChannel(cfg, channel, accountId, allowFrom)
          /\ lastOp' = [op |-> "setAccountAllowFrom", channel |-> channel,
                        accountId |-> accountId, allowFrom |-> allowFrom]
    /\ cfgIn' = cfg
    /\ steps' = steps + 1
    /\ UNCHANGED <<mergeVars, loopVars, auxVars>>

SetChannelDmPolicy ==
    /\ steps < MaxSteps
    /\ \E channel \in ChannelNames, dmPolicy \in DmPolicies :
          /\ cfg' = setChannelDmPolicyWithAllowFrom(cfg, channel, dmPolicy)
          /\ lastOp' = [op |-> "setChannelDmPolicy", channel |-> channel,
                        dmPolicy |-> dmPolicy]
    /\ cfgIn' = cfg
    /\ steps' = steps + 1
    /\ UNCHANGED <<mergeVars, loopVars, auxVars>>

--------------------------------------------------------------------------
(* Entry parser (helpers.ts:28-33) *)

Separators == {"\n", ",", ";"}

RECURSIVE SplitFrom(_, _, _, _)
\* raw.split(/[\n,;]+/g): the segments between runs of separators, the empty
\* segments before a leading and after a trailing run included.
SplitFrom(done, cur, rest, inRun) ==
    IF rest = <<>> THEN Append(done, cur)
    ELSE IF Head(rest) \in Separators
         THEN IF inRun THEN SplitFrom(done, cur, Tail(rest), TRUE)
              ELSE SplitFrom(Append(done, cur), <<>>, Tail(rest), TRUE)
         ELSE SplitFrom(done, Append(cur, Head(rest)), Tail(rest), FALSE)

\* mutant: the segments are not trimmed
splitOnboardingEntries_NoTrim(raw) ==
    LET segments == SplitFrom(<<>>, <<>>, raw, FALSE)
    IN  FilterBoolean([i \in 1..Len(segments) |-> Str(segments[i])])

splitOnboardingEntries(raw) ==
    LET segments == SplitFrom(<<>>, <<>>, raw, FALSE)
        trimmed == [i \in 1..Len(segments) |-> Str(Trim(segments[i]))]
    IN  FilterBoolean(trimmed)

--------------------------------------------------------------------------
(* promptResolvedAllowFrom (helpers.ts:145-201) *)

\* Caller-supplied texts, passed through unchanged.
Message == "msg"
Placeholder == "placeholder"
Label == "allowlist"
InvalidWithoutTokenNote == Str(<<"i", "d", "s", " ", "o", "n", "l", "y">>)

FailedToResolveNote == Str(
    <<"F", "a", "i", "l", "e", "d", " ", "t", "o", " ", "r", "e", "s", "o", "l", "v", "e", " ", "u", "s", "e", "r", "n", "a", "m", "e", "s", ".", " ", "T", "r", "y", " ", "a", "g", "a", "i", "n", ".">>)
CouldNotResolvePrefix == 
    <<"C", "o", "u", "l", "d", " ", "n", "o", "t", " ", "r", "e", "s", "o", "l", "v", "e", ":", " ">>

RECURSIVE Join(_, _)
\* texts.join(sep)
Join(texts, sep) ==
    IF texts = <<>> THEN <<>>
    ELSE IF Len(texts) = 1 THEN texts[1]
    ELSE texts[1] \o sep \o Join(Tail(texts), sep)

\* params.parseInputs: the caller's splitter; the module's own entry parser.
parseInputs(value) == splitOnboardingEntries(value)

\* What params.parseId may answer for one candidate: null, the empty text, or
\* the candidate as its identifier.
ParseIdAnswers(part) == {Null, Str(<<>>), part}

\* The answers of parseId for every candidate of a round, in order.
ParseIdRuns(ps) ==
    {run \in [1..Len(ps) -> UNION {ParseIdAnswers(ps[i]) : i \in 1..Len(ps)}] :
        \A i \in 1..Len(ps) : run[i] \in ParseIdAnswers(ps[i])}

\* values.filter(Boolean) of nullable texts
FilterTruthy(l) == SelectSeq(l, LAMBDA v : ~IsFalsy(v))

\* mutant: a token is taken to be absent only when it is undefined
TokenAbsent_OnlyUndefined(t) == "undef" \in DOMAIN t

\* !params.token
TokenAbsent(t) == IsFalsy(t)

\* mutant: a round passes as soon as one candidate parsed
AllParsed_AnyParsed(ids, ps) == Len(ids) > 0 \/ Len(ps) = 0

\* mutant: a round without candidates does not pass
AllParsed_RequiresCandidate(ids, ps) == Len(ids) = Len(ps) /\ Len(ps) > 0

\* !(ids.length !== parts.length)
AllParsed(ids, ps) == Len(ids) = Len(ps)

\* mutant: a resolved result passes without an id
IsUnresolved_IgnoresId(res) == ~res.resolved

\* (res) => !res.resolved || !res.id
IsUnresolved(res) == ~res.resolved \/ IsFalsy(res.id)

\* mutant: the inputs are joined by a comma alone
CouldNotResolveMessage_CommaOnly(unresolved) ==
    Str(CouldNotResolvePrefix
        \o Join([i \in 1..Len(unresolved) |-> unresolved[i].input.str], <<",">>))

\* `Could not resolve: ${unresolved.map((res) => res.input).join(", ")}`
CouldNotResolveMessage(unresolved) ==
    Str(CouldNotResolvePrefix
        \o Join([i \in 1..Len(unresolved) |-> unresolved[i].input.str],
                <<",", " ">>))

RECURSIVE SetToSeq(_)
SetToSeq(S) ==
    IF S = {} THEN <<>> ELSE LET x == CHOOSE x \in S : TRUE
                             IN  <<x>> \o SetToSeq(S \ {x})

\* mutant: identifiers accepted in earlier rounds are merged as well
ReturnValue_Accumulating(ids) ==
    mergeAllowFromEntries(List(existing), SetToSeq(earlierIds) \o ids)

\* return mergeAllowFromEntries(params.existing, ids)
ReturnValue(ids) == mergeAllowFromEntries(List(existing), ids)

\* The arguments of prompter.text (helpers.ts:164-169).
TextCallArg ==
    [message |-> Message,
     placeholder |-> Placeholder,
     initialValue |-> IF existing # <<>> /\ ~IsFalsy(existing[1])
                      THEN Str(JsString(existing[1]))
                      ELSE Undef]

NoteCall(message) == Some([message |-> message, title |-> Label])

\* Existing allowlists a caller passes in.
ExistingLists ==
    { <<>>,
      <<Str(<<" ", "u">>), Num(1)>>,
      <<Num(0), Str(<<"a">>)>> }

\* params.token: undefined, null, empty, or a directory token.
Tokens == {Undef, Null, Str(<<>>), Str(<<"t">>)}

\* Lines the user submits at the prompt.
Entries ==
    { <<"a">>,
      <<"a", ",", "b">>,
      <<" ", "b", ";", "\n", "a", ",">>,
      <<",", ";">> }

\* Identifiers the directory answers with.
DirectoryIds == {Str(<<"u">>), Str(<<"v">>)}

\* Results the directory may return for the candidates ps: any input among
\* them, resolved or not, with an id that is missing, null, empty or present.
ResultVals(ps) ==
    {[input |-> ps[i], resolved |-> r, id |-> id] :
        i \in 1..Len(ps), r \in BOOLEAN,
        id \in {Undef, Str(<<>>)} \cup DirectoryIds}

\* Rounds of one promptResolvedAllowFrom call.
MaxRounds == 3
\* Results in one answer of the directory.
MaxResults == 2

LoopInit ==
    /\ existing \in ExistingLists
    /\ token \in Tokens
    /\ pc = "text"
    /\ entry = None
    /\ parts = <<>>
    /\ parsed = <<>>
    /\ results = Undef
    /\ pendingNote = None
    /\ outcome = None
    /\ failure = None
    /\ calls = [text |-> 1, note |-> 0, resolve |-> 0, parseId |-> 0]
    /\ textArg = TextCallArg
    /\ resolveArg = None
    /\ parseIdArgs = <<>>
    /\ earlierIds = {}
    /\ abortedAt = None

\* prompter.text answers: the round runs up to its next await or its return
\* (helpers.ts:164-185).
TextResolves ==
    /\ pc = "text"
    /\ \E e \in Entries :
          LET ps == parseInputs(e)
          IN  /\ entry' = Some(e)
              /\ parts' = ps
              /\ IF TokenAbsent(token)
                 THEN \E run \in ParseIdRuns(ps) :
                        LET ids == FilterTruthy(run)
                        IN  /\ parsed' = run
                            /\ parseIdArgs' = ps
                            /\ IF ~AllParsed(ids, ps)
                               THEN /\ pendingNote' = NoteCall(InvalidWithoutTokenNote)
                                    /\ calls' = [calls EXCEPT !.parseId = @ + Len(ps),
                                                              !.note = @ + 1]
                                    /\ pc' = "note"
                                    /\ earlierIds' =
                                          earlierIds \cup {ids[i] : i \in 1..Len(ids)}
                                    /\ UNCHANGED outcome
                               ELSE /\ outcome' = Some(ReturnValue(ids))
                                    /\ calls' = [calls EXCEPT !.parseId = @ + Len(ps)]
                                    /\ pc' = "returned"
                                    /\ UNCHANGED <<pendingNote, earlierIds>>
                            /\ UNCHANGED resolveArg
                 ELSE /\ resolveArg' = Some([token |-> token, entries |-> ps])
                      /\ calls' = [calls EXCEPT !.resolve = @ + 1]
                      /\ pc' = "resolve"
                      /\ UNCHANGED <<parsed, parseIdArgs, pendingNote, outcome,
                                     earlierIds>>
    /\ UNCHANGED <<existing, token, results, failure, textArg, abortedAt>>
    /\ UNCHANGED <<mergeVars, cfgVars, auxVars>>

\* prompter.text raises or rejects: the await at helpers.ts:164 rethrows.
TextRejects ==
    /\ pc = "text"
    /\ pc' = "rejected"
    /\ failure' = Some("prompter")
    /\ abortedAt' = Some(calls)
    /\ UNCHANGED <<existing, token, entry, parts, parsed, results, pendingNote,
                   outcome, calls, textArg, resolveArg, parseIdArgs, earlierIds>>
    /\ UNCHANGED <<mergeVars, cfgVars, auxVars>>

\* resolveEntries fulfils with a list (helpers.ts:186-199).
ResolveFulfils ==
    /\ pc = "resolve"
    /\ \E rs \in BoundedSeq(ResultVals(parts), MaxResults) :
          LET unresolved == SelectSeq(rs, IsUnresolved)
              ids == [i \in 1..Len(rs) |-> rs[i].id]
          IN  /\ results' = List(rs)
              /\ IF Len(unresolved) > 0
                 THEN /\ pendingNote' = NoteCall(CouldNotResolveMessage(unresolved))
                      /\ calls' = [calls EXCEPT !.note = @ + 1]
                      /\ pc' = "note"
                      /\ earlierIds' = earlierIds \cup
                            {rs[i].id : i \in {j \in 1..Len(rs) : ~IsUnresolved(rs[j])}}
                      /\ UNCHANGED outcome
                 ELSE /\ outcome' = Some(ReturnValue(ids))
                      /\ pc' = "returned"
                      /\ UNCHANGED <<pendingNote, calls, earlierIds>>
    /\ UNCHANGED <<existing, token, entry, parts, parsed, failure, textArg,
                   resolveArg, parseIdArgs, abortedAt>>
    /\ UNCHANGED <<mergeVars, cfgVars, auxVars>>

\* mutant: a rejected resolveEntries promise re-prompts without a notice
ResolveRejects_Silent ==
    /\ pc = "resolve"
    /\ calls.text < MaxRounds
    /\ results' = Null
    /\ pc' = "text"
    /\ calls' = [calls EXCEPT !.text = @ + 1]
    /\ UNCHANGED <<existing, token, entry, parts, parsed, pendingNote, outcome,
                   failure, textArg, resolveArg, parseIdArgs, earlierIds, abortedAt>>
    /\ UNCHANGED <<mergeVars, cfgVars, auxVars>>

\* The promise of resolveEntries rejects: .catch(() => null) yields null, and
\* !results shows the generic notice (helpers.ts:185-188).
ResolveRejects ==
    /\ pc = "resolve"
    /\ results' = Null
    /\ pendingNote' = NoteCall(FailedToResolveNote)
    /\ calls' = [calls EXCEPT !.note = @ + 1]
    /\ pc' = "note"
    /\ UNCHANGED <<existing, token, entry, parts, parsed, outcome, failure,
                   textArg, resolveArg, parseIdArgs, earlierIds, abortedAt>>
    /\ UNCHANGED <<mergeVars, cfgVars, auxVars>>

\* The call params.resolveEntries(...) itself raises: no promise is returned
\* for .catch to be attached to, and the exception leaves the function
\* (helpers.ts:180-185).
ResolveThrows ==
    /\ pc = "resolve"
    /\ pc' = "rejected"
    /\ failure' = Some("resolver")
    /\ UNCHANGED <<existing, token, entry, parts, parsed, results, pendingNote,
                   outcome, calls, textArg, resolveArg, parseIdArgs, earlierIds,
                   abortedAt>>
    /\ UNCHANGED <<mergeVars, cfgVars, auxVars>>

\* prompter.note returns: `continue` starts the next round with a new
\* prompter.text call (helpers.ts:175, :188, :196, :164).
NoteResolves ==
    /\ pc = "note"
    /\ calls.text < MaxRounds
    /\ pc' = "text"
    /\ calls' = [calls EXCEPT !.text = @ + 1]
    /\ textArg' = TextCallArg
    /\ entry' = None
    /\ parts' = <<>>
    /\ parsed' = <<>>
    /\ results' = Undef
    /\ resolveArg' = None
    /\ parseIdArgs' = <<>>
    /\ pendingNote' = None
    /\ UNCHANGED <<existing, token, outcome, failure, earlierIds, abortedAt>>
    /\ UNCHANGED <<mergeVars, cfgVars, auxVars>>

\* mutant: an abort of prompter.note is swallowed and the loop goes on
NoteRejects_Swallowed ==
    /\ pc = "note"
    /\ calls.text < MaxRounds
    /\ pc' = "text"
    /\ calls' = [calls EXCEPT !.text = @ + 1]
    /\ abortedAt' = Some(calls)
    /\ pendingNote' = None
    /\ UNCHANGED <<existing, token, entry, parts, parsed, results, outcome,
                   failure, textArg, resolveArg, parseIdArgs, earlierIds>>
    /\ UNCHANGED <<mergeVars, cfgVars, auxVars>>

\* prompter.note raises or rejects: the awaits at helpers.ts:174, :187, :192
\* rethrow.
NoteRejects ==
    /\ pc = "note"
    /\ pc' = "rejected"
    /\ failure' = Some("prompter")
    /\ abortedAt' = Some(calls)
    /\ UNCHANGED <<existing, token, entry, parts, parsed, results, pendingNote,
                   outcome, calls, textArg, resolveArg, parseIdArgs, earlierIds>>
    /\ UNCHANGED <<mergeVars, cfgVars, auxVars>>

--------------------------------------------------------------------------
(* The loop under a cooperating environment: the prompter never aborts, and
   the round numbered MaxRounds is one whose candidates all parse, or all
   resolve without the call failing. *)

LastRound == calls.text = MaxRounds

FairTextResolves == TextResolves /\ (LastRound => pc' # "note")

FairResolveFulfils == ResolveFulfils /\ (LastRound => pc' = "returned")

FairResolveRejects == ~LastRound /\ ResolveRejects

FairResolveThrows == ~LastRound /\ ResolveThrows

--------------------------------------------------------------------------
(* Account resolution (helpers.ts:56-85) *)

LowerOf(c) == CASE c = "T" -> "t" [] c = "P" -> "p" [] c = "W" -> "w" [] OTHER -> c

RECURSIVE DashRuns(_, _)
\* every run of blanks replaced by one "-"
DashRuns(s, inRun) ==
    IF s = <<>> THEN <<>>
    ELSE IF Head(s) = " "
         THEN (IF inRun THEN <<>> ELSE <<"-">>) \o DashRuns(Tail(s), TRUE)
         ELSE <<Head(s)>> \o DashRuns(Tail(s), FALSE)

\* normalizeAccountId of routing/session-key.js, as the tests show it:
\* " Team Primary " becomes "team-primary" (helpers.test.ts:239-246, :264-276).
normalizeAccountId(value) ==
    LET trimmed == Trim(value)
    IN  DashRuns([i \in 1..Len(trimmed) |-> LowerOf(trimmed[i])], FALSE)

\* params.accountOverride?.trim()
TrimmedOverride(o) == IF IsNullish(o) THEN Undef ELSE Str(Trim(o.str))

\* mutant: the prompt is shown whenever prompting is permitted
ShouldPrompt_IgnoresOverride(shouldPromptAccountIds, override) ==
    shouldPromptAccountIds

\* params.shouldPromptAccountIds && !override
ShouldPrompt(shouldPromptAccountIds, override) ==
    shouldPromptAccountIds /\ IsFalsy(override)

\* accountOverride?: string
Overrides ==
    { Undef, Str(<<>>), Str(<<" ", " ">>),
      Str(<<" ", "T", "e", "a", "m", " ", "P", "r", "i", "m", "a", "r", "y", " ">>),
      Str(<<"w", "o", "r", "k">>), Str(<<"W", " ", " ", "p">>) }

\* defaultAccountId: string
DefaultIds == { <<"d", "e", "f", "a", "u", "l", "t">>, <<"f", "a", "l", "l", "b", "a", "c", "k">>, <<"w", "o", "r", "k">> }

\* what the account prompt answers
PromptAnswers == { <<"d", "e", "f", "a", "u", "l", "t">>, <<"p", "r", "o", "m", "p", "t", "e", "d", "-", "i", "d">>, <<"a", "l", "t">> }

AcctInit ==
    /\ aOverride \in Overrides
    /\ aShouldPrompt \in BOOLEAN
    /\ aDefault \in DefaultIds
    /\ aPc = "called"
    /\ aPromptCalls = 0
    /\ aPromptArg = None
    /\ aAnswer = None
    /\ aResult = None

\* resolveAccountIdForConfigure runs up to its await or its return
\* (helpers.ts:72-84).
Configure ==
    /\ aPc = "called"
    /\ LET override == TrimmedOverride(aOverride)
           accountId == IF ~IsFalsy(override) THEN normalizeAccountId(override.str)
                        ELSE aDefault
       IN  IF ShouldPrompt(aShouldPrompt, override)
           THEN /\ aPc' = "prompt"
                /\ aPromptCalls' = aPromptCalls + 1
                /\ aPromptArg' = Some([label |-> Label, currentId |-> accountId,
                                       defaultAccountId |-> aDefault])
                /\ UNCHANGED aResult
           ELSE /\ aPc' = "returned"
                /\ aResult' = Some(accountId)
                /\ UNCHANGED <<aPromptCalls, aPromptArg>>
    /\ UNCHANGED <<aOverride, aShouldPrompt, aDefault, aAnswer>>
    /\ UNCHANGED <<mergeVars, cfgVars, loopVars, normVars, splitVars>>

\* promptAccountId answers: its answer is returned (helpers.ts:75, :84).
PromptResolves ==
    /\ aPc = "prompt"
    /\ \E answer \in PromptAnswers :
          /\ aAnswer' = Some(answer)
          /\ aResult' = Some(answer)
    /\ aPc' = "returned"
    /\ UNCHANGED <<aOverride, aShouldPrompt, aDefault, aPromptCalls, aPromptArg>>
    /\ UNCHANGED <<mergeVars, cfgVars, loopVars, normVars, splitVars>>

\* promptAccountId fails: the await at helpers.ts:75 rethrows.
PromptRejects ==
    /\ aPc = "prompt"
    /\ aPc' = "rejected"
    /\ UNCHANGED <<aOverride, aShouldPrompt, aDefault, aPromptCalls, aPromptArg,
                   aAnswer, aResult>>
    /\ UNCHANGED <<mergeVars, cfgVars, loopVars, normVars, splitVars>>

--------------------------------------------------------------------------
(* Entry normalizer (helpers.ts:35-54) *)

IsDigits(t) == t # <<>> /\ \A i \in 1..Len(t) : \E d \in 1..10 : t[i] = DigitChars[d]

\* The normalizeEntry functions of the model, by name: none supplied, or one
\* that answers null for every value, the empty text, the value itself, another
\* untrimmed value, the wildcard, or the value when it is all digits and
\* undefined otherwise.
Normalizers == {"absent", "null", "empty", "same", "other", "star", "digits"}

\* normalizeEntry(value)
ApplyNormalizer(kind, value) ==
    CASE kind = "null" -> Null
      [] kind = "empty" -> Str(<<>>)
      [] kind = "same" -> Str(value)
      [] kind = "other" -> Str(<<" ", "x", " ">>)
      [] kind = "star" -> Wildcard
      [] OTHER -> IF IsDigits(value) THEN Str(value) ELSE Undef

\* The entries left by .map((entry) => String(entry).trim()).filter(Boolean)
TrimmedEntries(entries) == FilterBoolean(MapStringTrim(entries))

\* The values normalizeEntry is called with, in order (helpers.ts:43-49).
NormalizerArgs(entries, kind) ==
    IF kind = "absent" THEN <<>>
    ELSE SelectSeq(TrimmedEntries(entries), LAMBDA e : e # Wildcard)

\* mutant: the wildcard is handed to the normalizer like any other entry
normalizeAllowFromEntries_NoWildcardCase(entries, kind) ==
    LET trimmed == TrimmedEntries(entries)
        mapOne(e) ==
            IF kind = "absent" THEN e
            ELSE LET value == ApplyNormalizer(kind, e.str)
                 IN  IF IsStr(value) THEN Str(Trim(value.str)) ELSE Str(<<>>)
    IN  SetSpread(FilterBoolean([i \in 1..Len(trimmed) |-> mapOne(trimmed[i])]))

normalizeAllowFromEntries(entries, kind) ==
    LET trimmed == TrimmedEntries(entries)
        mapOne(e) ==
            IF e = Wildcard THEN Wildcard
            ELSE IF kind = "absent" THEN e
            ELSE LET value == ApplyNormalizer(kind, e.str)
                 IN  IF IsStr(value) THEN Str(Trim(value.str)) ELSE Str(<<>>)
        normalized == FilterBoolean([i \in 1..Len(trimmed) |-> mapOne(trimmed[i])])
    IN  SetSpread(normalized)

\* Raw entries: wildcards (one untrimmed), text, a number, an empty text.
NormVals ==
    { Wildcard, Str(<<" ", "*", " ">>), Str(<<"a">>), Str(<<" ", "a">>),
      Num(1), Str(<<>>) }

\* Entries handed to one normalizeAllowFromEntries call.
MaxNorm == 3

NormInit ==
    /\ nEntries \in BoundedSeq(NormVals, MaxNorm)
    /\ nNormalizer \in Normalizers
    /\ nOut = None
    /\ nApplied = <<>>

\* result = normalizeAllowFromEntries(entries, normalizeEntry)
NormalizeCall ==
    /\ nOut = None
    /\ nOut' = Some(normalizeAllowFromEntries(nEntries, nNormalizer))
    /\ nApplied' = NormalizerArgs(nEntries, nNormalizer)
    /\ UNCHANGED <<nEntries, nNormalizer>>
    /\ UNCHANGED <<mergeVars, cfgVars, loopVars, acctVars, splitVars>>

--------------------------------------------------------------------------
(* splitOnboardingEntries applied to a drawn text *)

RawChars == {"\n", ",", ";", " ", "a", "b"}

\* Length of the text handed to splitOnboardingEntries.
MaxRaw == 4

SplitInit ==
    /\ sRaw \in BoundedSeq(RawChars, MaxRaw)
    /\ sOut = None

\* result = splitOnboardingEntries(raw)
SplitCall ==
    /\ sOut = None
    /\ sOut' = Some(splitOnboardingEntries(sRaw))
    /\ UNCHANGED sRaw
    /\ UNCHANGED <<mergeVars, cfgVars, loopVars, acctVars, normVars>>

--------------------------------------------------------------------------
(* Specifications *)

MergeIdle ==
    /\ mCurrent = Undef
    /\ mAdditions = <<>>
    /\ mOut = None
    /\ mAgain = None

LoopIdle ==
    /\ existing = <<>>
    /\ token = Undef
    /\ pc = "idle"
    /\ entry = None
    /\ parts = <<>>
    /\ parsed = <<>>
    /\ results = Undef
    /\ pendingNote = None
    /\ outcome = None
    /\ failure = None
    /\ calls = [text |-> 0, note |-> 0, resolve |-> 0, parseId |-> 0]
    /\ textArg = None
    /\ resolveArg = None
    /\ parseIdArgs = <<>>
    /\ earlierIds = {}
    /\ abortedAt = None

AcctIdle ==
    /\ aOverride = Undef
    /\ aShouldPrompt = FALSE
    /\ aDefault = <<>>
    /\ aPc = "idle"
    /\ aPromptCalls = 0
    /\ aPromptArg = None
    /\ aAnswer = None
    /\ aResult = None

NormIdle ==
    /\ nEntries = <<>>
    /\ nNormalizer = "absent"
    /\ nOut = None
    /\ nApplied = <<>>

SplitIdle ==
    /\ sRaw = <<>>
    /\ sOut = None

AuxIdle == AcctIdle /\ NormIdle /\ SplitIdle

CfgIdle ==
    /\ cfg = EmptyObj
    /\ cfgIn = EmptyObj
    /\ lastOp = [op |-> "none"]
    /\ steps = 0

SpecMergeInit == MergeInit /\ CfgIdle /\ LoopIdle /\ AuxIdle
MergeNext == MergeCall \/ MergeAgain
SpecMerge == SpecMergeInit /\ [][MergeNext]_vars

SpecCfgInit == CfgInit /\ MergeIdle /\ LoopIdle /\ AuxIdle
CfgNext == SetAccountAllowFrom \/ SetChannelDmPolicy
SpecCfg == SpecCfgInit /\ [][CfgNext]_vars

\* One call of promptResolvedAllowFrom.
Init == LoopInit /\ MergeIdle /\ CfgIdle /\ AuxIdle
Next ==
    \/ TextResolves
    \/ TextRejects
    \/ ResolveFulfils
    \/ ResolveRejects
    \/ ResolveThrows
    \/ NoteResolves
    \/ NoteRejects
Spec == Init /\ [][Next]_vars

\* One call of promptResolvedAllowFrom under a cooperating environment, every
\* enabled step eventually taken.
FairNext ==
    \/ FairTextResolves
    \/ FairResolveFulfils
    \/ FairResolveRejects
    \/ FairResolveThrows
    \/ NoteResolves
SpecFair == Init /\ [][FairNext]_vars /\ WF_vars(FairNext)

\* One call of resolveAccountIdForConfigure.
SpecAcctInit == AcctInit /\ MergeIdle /\ CfgIdle /\ LoopIdle /\ NormIdle /\ SplitIdle
AcctNext == Configure \/ PromptResolves \/ PromptRejects
SpecAcct == SpecAcctInit /\ [][AcctNext]_vars

\* One call of normalizeAllowFromEntries.
SpecNormInit == NormInit /\ MergeIdle /\ CfgIdle /\ LoopIdle /\ AcctIdle /\ SplitIdle
NormNext == NormalizeCall
SpecNorm == SpecNormInit /\ [][NormNext]_vars

\* One call of splitOnboardingEntries.
SpecSplitInit == SplitInit /\ MergeIdle /\ CfgIdle /\ LoopIdle /\ AcctIdle /\ NormIdle
SplitNext == SplitCall
SpecSplit == SpecSplitInit /\ [][SplitNext]_vars

--------------------------------------------------------------------------
(* Properties of mergeAllowFromEntries *)

\* Every value converted to text and trimmed, in input order.
ConvertedTexts(l) == [i \in 1..Len(l) |-> Trim(JsString(l[i]))]

FirstIndex(seq, x) ==
    CHOOSE i \in 1..Len(seq) : seq[i] = x /\ \A j \in 1..(i - 1) : seq[j] # x

MergeInputs ==
    (IF mCurrent \in {Undef, Null} THEN <<>> ELSE mCurrent.list) \o mAdditions

\* C8: mergeAllowFromEntries(current, additions) is the text form of current
\* followed by additions, trimmed, without empty values, each value kept at its
\* first occurrence: no duplicate, no empty and no untrimmed entry; and merging
\* the result again with the same additions or with identifiers it already
\* holds returns the same list in the same order.
C8_MergeIsOrderedUnion ==
    mOut # None =>
        LET out == mOut[1]
            conv == ConvertedTexts(MergeInputs)
        IN  /\ \A i \in 1..Len(out) :
                  /\ IsStr(out[i])
                  /\ out[i].str # <<>>
                  /\ out[i].str[1] \notin Whitespace
                  /\ out[i].str[Len(out[i].str)] \notin Whitespace
            /\ \A i, j \in 1..Len(out) : i # j => out[i] # out[j]
            /\ {out[i].str : i \in 1..Len(out)}
                  = {conv[j] : j \in 1..Len(conv)} \ {<<>>}
            /\ \A i, j \in 1..Len(out) :
                  i < j => FirstIndex(conv, out[i].str) < FirstIndex(conv, out[j].str)
            /\ mAgain # None => mAgain[1].out = out

\* A merge of a number, an untrimmed text and a repeated value, merged again
\* with identifiers it already holds.
C8_Witness ==
    /\ mOut # None
    /\ mAgain # None
    /\ Len(mOut[1]) = 2
    /\ Len(MergeInputs) > Len(mOut[1])
    /\ \E i \in 1..Len(MergeInputs) : IsNum(MergeInputs[i])
    /\ \E i \in 1..Len(MergeInputs) :
          IsStr(MergeInputs[i]) /\ Trim(MergeInputs[i].str) # MergeInputs[i].str
    /\ Len(mAgain[1].extra) = 2
    /\ mAgain[1].extra # mAdditions

--------------------------------------------------------------------------
(* Properties of the channel config patchers *)

\* Property k is absent from both objects or present with the same value.
SameAt(a, b, k) == (Has(a, k) <=> Has(b, k)) /\ (Has(a, k) => a[k] = b[k])

\* The two objects agree on every property outside ks.
SameExcept(a, b, ks) == \A k \in (DOMAIN a \cup DOMAIN b) \ ks : SameAt(a, b, k)

PreChannels == ObjAt(cfgIn, "channels")
PreChannel == ObjAt(PreChannels, lastOp.channel)
PostChannel == cfg.channels[lastOp.channel]

\* Only the entry of the patched channel differs between input and output.
OnlyChannelPatched ==
    /\ Has(cfg, "channels")
    /\ SameExcept(cfg, cfgIn, {"channels"})
    /\ Has(cfg.channels, lastOp.channel)
    /\ SameExcept(cfg.channels, PreChannels, {lastOp.channel})

\* C9: setAccountAllowFromForChannel sets exactly one allowFrom: the channel's
\* top-level one for the default account (accounts, the channel's other fields
\* and the other channels unchanged), the one under accounts[accountId]
\* otherwise (the top-level allowFrom, the account's other fields, the sibling
\* accounts and the other channels unchanged).
C9_SetAllowFromFrame ==
    lastOp.op = "setAccountAllowFrom" =>
        /\ OnlyChannelPatched
        /\ IF lastOp.accountId = DEFAULT_ACCOUNT_ID
           THEN /\ Has(PostChannel, "allowFrom")
                /\ PostChannel.allowFrom = lastOp.allowFrom
                /\ SameExcept(PostChannel, PreChannel, {"allowFrom"})
           ELSE /\ Has(PostChannel, "accounts")
                /\ SameExcept(PostChannel, PreChannel, {"accounts"})
                /\ LET pre == ObjAt(PreChannel, "accounts")
                       post == PostChannel.accounts
                       id == lastOp.accountId
                   IN  /\ Has(post, id)
                       /\ SameExcept(post, pre, {id})
                       /\ Has(post[id], "allowFrom")
                       /\ post[id].allowFrom = lastOp.allowFrom
                       /\ SameExcept(post[id], ObjAt(pre, id), {"allowFrom"})

\* A non-default account patched on a channel that has a top-level allowFrom,
\* a sibling account, other fields on the account, and a second channel.
C9_Witness ==
    /\ lastOp.op = "setAccountAllowFrom"
    /\ lastOp.accountId = "work"
    /\ lastOp.channel = "imessage"
    /\ Has(PreChannels, "signal")
    /\ Has(PreChannel, "allowFrom")
    /\ Has(PreChannel, "accounts")
    /\ Has(PreChannel.accounts, "work")
    /\ Has(PreChannel.accounts, "alt")
    /\ Has(PreChannel.accounts.work, "enabled")
    /\ PreChannel.accounts.work.allowFrom # lastOp.allowFrom

\* The channel's top-level allowFrom before the call ([] when absent).
PreAllowFrom == IF Has(PreChannel, "allowFrom") THEN PreChannel.allowFrom ELSE <<>>

\* PreAllowFrom as text: trimmed, empty entries dropped, order kept.
PreAllowFromTexts ==
    SelectSeq([i \in 1..Len(PreAllowFrom) |-> Str(Trim(JsString(PreAllowFrom[i])))],
              LAMBDA v : v.str # <<>>)

\* What setChannelDmPolicyWithAllowFrom leaves alone, and the policy it sets.
DmPolicyFrame ==
    /\ OnlyChannelPatched
    /\ Has(PostChannel, "dmPolicy")
    /\ PostChannel.dmPolicy = lastOp.dmPolicy
    /\ SameExcept(PostChannel, PreChannel, {"dmPolicy", "allowFrom"})
    /\ lastOp.dmPolicy # "open" => SameAt(PostChannel, PreChannel, "allowFrom")

\* C10 as stated: for "open" the new allowFrom is the existing entries with "*"
\* appended when it was not already present; for every other policy allowFrom
\* is what it was.
C10_OpenAppendsToExistingEntries ==
    lastOp.op = "setChannelDmPolicy" =>
        /\ DmPolicyFrame
        /\ lastOp.dmPolicy = "open" =>
              /\ Has(PostChannel, "allowFrom")
              /\ PostChannel.allowFrom =
                    IF Includes(PreAllowFrom, Wildcard) THEN PreAllowFrom
                    ELSE Append(PreAllowFrom, Wildcard)

\* C10 amended: for "open" the new allowFrom is the existing entries converted
\* to text and trimmed, empty ones dropped, in order, with "*" appended when no
\* entry trims to "*"; for every other policy allowFrom is what it was (absent
\* when it was absent); dmPolicy is set, and accounts, the other fields and the
\* other channels are unchanged.
C10_OpenAppendsToTrimmedEntries ==
    lastOp.op = "setChannelDmPolicy" =>
        /\ DmPolicyFrame
        /\ lastOp.dmPolicy = "open" =>
              /\ Has(PostChannel, "allowFrom")
              /\ PostChannel.allowFrom =
                    IF Includes(PreAllowFromTexts, Wildcard) THEN PreAllowFromTexts
                    ELSE Append(PreAllowFromTexts, Wildcard)

\* "open" applied to a channel whose three entries are untrimmed, numeric and
\* empty, beside a second channel.
C10_Witness ==
    /\ lastOp.op = "setChannelDmPolicy"
    /\ lastOp.dmPolicy = "open"
    /\ Len(PreAllowFrom) = 3
    /\ PostChannel.allowFrom = <<Str(<<"a">>), Str(<<"1">>), Wildcard>>
    /\ Has(PreChannels, "signal")

--------------------------------------------------------------------------
(* Properties of promptResolvedAllowFrom *)

\* A non-empty token was supplied.
DirectoryMode == IsStr(token) /\ token.str # <<>>
LocalMode == ~DirectoryMode

\* The resolver has answered this round with a list.
HasResults == "list" \in DOMAIN results

\* A Resolution Result is acceptable: resolved, with a non-empty identifier.
Acceptable(res) == res.resolved /\ IsStr(res.id) /\ res.id.str # <<>>

\* parseId accepted the candidate: it answered a non-empty text.
Accepted(answer) == IsStr(answer) /\ answer.str # <<>>

\* The identifiers of the round the loop is in: the resolver's, or parseId's.
RoundIds ==
    IF DirectoryMode
    THEN [i \in 1..Len(results.list) |-> results.list[i].id]
    ELSE parsed

\* C1: in directory mode the loop returns only at the end of a round whose
\* results are all acceptable; a round with an unresolved result, or one with a
\* missing or empty id, returns nothing and ends in the notice that precedes
\* the re-prompt.
C1_ReturnsOnlyWhenAllAcceptable ==
    DirectoryMode =>
        /\ pc = "returned" =>
              /\ HasResults
              /\ \A i \in 1..Len(results.list) : Acceptable(results.list[i])
        /\ (HasResults /\ \E i \in 1..Len(results.list) : ~Acceptable(results.list[i])) =>
              /\ pc \in {"note", "rejected"}
              /\ pendingNote # None
              /\ outcome = None

\* The loop returns in a later round, on two acceptable results.
C1_Witness ==
    /\ DirectoryMode
    /\ pc = "returned"
    /\ calls.text >= 2
    /\ Len(results.list) = 2

\* C2: the returned list is mergeAllowFromEntries(existing, ids of the final
\* round): each of its entries is the text of an existing entry or of an
\* identifier of the final round, whatever earlier rounds had accepted.
C2_NoAccumulationAcrossRounds ==
    pc = "returned" =>
        /\ outcome = Some(mergeAllowFromEntries(List(existing), RoundIds))
        /\ \A i \in 1..Len(outcome[1]) :
              outcome[1][i].str \in
                 {Trim(JsString(existing[k])) : k \in 1..Len(existing)}
                 \cup {Trim(JsString(RoundIds[k])) : k \in 1..Len(RoundIds)}

\* The loop returns after a failed round that had accepted an identifier which
\* the returned list does not hold.
C2_Witness ==
    /\ pc = "returned"
    /\ calls.text >= 2
    /\ \E x \in earlierIds : ~Includes(outcome[1], x)
    /\ Len(outcome[1]) >= 2

\* C3: without a token the loop returns only when parseId accepted every
\* candidate of the round, and returns mergeAllowFromEntries(existing, the
\* parsed ids); a round with a rejected candidate returns nothing and shows
\* invalidWithoutTokenNote with the label.
C3_LocalAllOrNothing ==
    LocalMode =>
        /\ pc = "returned" =>
              /\ Len(parsed) = Len(parts)
              /\ \A i \in 1..Len(parsed) : Accepted(parsed[i])
              /\ outcome = Some(mergeAllowFromEntries(List(existing), parsed))
        /\ (\E i \in 1..Len(parsed) : ~Accepted(parsed[i])) =>
              /\ pc \in {"note", "rejected"}
              /\ pendingNote = Some([message |-> InvalidWithoutTokenNote,
                                     title |-> Label])
              /\ outcome = None

\* The loop returns without a token, in a later round, on two candidates.
C3_Witness ==
    /\ LocalMode
    /\ pc = "returned"
    /\ calls.text >= 2
    /\ Len(parts) = 2
    /\ existing # <<>>

\* C4 as stated: a failing resolveEntries call never propagates out of the
\* loop: it shows the generic notice and re-prompts; a later successful round
\* decides the result, and resolveEntries has been called once per round.
C4_ResolverFailureNeverPropagates ==
    /\ failure # Some("resolver")
    /\ results = Null =>
          /\ pc \in {"note", "rejected"}
          /\ pendingNote = Some([message |-> FailedToResolveNote, title |-> Label])
    /\ (DirectoryMode /\ pc = "returned") =>
          /\ calls.resolve = calls.text
          /\ outcome = Some(mergeAllowFromEntries(List(existing), RoundIds))

\* C5: once the prompter has aborted, the loop has ended with that abort,
\* has returned no list, and has made no call since.
C5_PrompterAbortIsFatal ==
    abortedAt # None =>
        /\ pc = "rejected"
        /\ failure = Some("prompter")
        /\ outcome = None
        /\ calls = abortedAt[1]

\* prompter.note aborted in the second round.
C5_Witness ==
    /\ abortedAt # None
    /\ pendingNote # None
    /\ calls.text = 2
    /\ calls.note = 2

\* C6: without a token (undefined, null or empty) resolveEntries is never
\* called and parseId is applied to the candidates of the round; with a token
\* parseId is never called and resolveEntries gets the token and all the
\* candidates of the round.
C6_StrategyFixedByToken ==
    /\ LocalMode =>
          /\ calls.resolve = 0
          /\ resolveArg = None
          /\ results = Undef
          /\ entry # None => parseIdArgs = parts /\ Len(parsed) = Len(parts)
    /\ DirectoryMode =>
          /\ calls.parseId = 0
          /\ parseIdArgs = <<>>
          /\ parsed = <<>>
          /\ entry # None => resolveArg = Some([token |-> token, entries |-> parts])
          /\ entry = None => resolveArg = None
          /\ calls.resolve = calls.text - (IF entry = None THEN 1 ELSE 0)

\* A second round with the empty text as token, parseId applied to two
\* candidates.
C6_Witness ==
    /\ token = Str(<<>>)
    /\ calls.text >= 2
    /\ calls.parseId >= 3
    /\ Len(parseIdArgs) = 2

RECURSIVE UnacceptableInputs(_, _)
\* The inputs of the unacceptable results, in the resolver's order, ", "
\* between them.
UnacceptableInputs(rs, first) ==
    IF rs = <<>> THEN <<>>
    ELSE IF Acceptable(Head(rs)) THEN UnacceptableInputs(Tail(rs), first)
    ELSE (IF first THEN <<>> ELSE <<",", " ">>)
            \o Head(rs).input.str
            \o UnacceptableInputs(Tail(rs), FALSE)

\* C7: the notice of a directory round with an unacceptable result is
\* "Could not resolve: " followed by the inputs of the unacceptable results
\* only, in the resolver's order, joined by ", ", with the caller's label.
C7_CouldNotResolveNotice ==
    (pc = "note" /\ HasResults) =>
        /\ \E i \in 1..Len(results.list) : ~Acceptable(results.list[i])
        /\ pendingNote =
              Some([message |-> Str(CouldNotResolvePrefix
                                    \o UnacceptableInputs(results.list, TRUE)),
                    title |-> Label])

\* Two unacceptable results, returned in the reverse order of the candidates.
C7_Witness ==
    /\ pc = "note"
    /\ HasResults
    /\ Len(results.list) = 2
    /\ Len(parts) = 2
    /\ results.list[1].input = parts[2]
    /\ results.list[2].input = parts[1]
    /\ parts[1] # parts[2]
    /\ ~Acceptable(results.list[1])
    /\ ~Acceptable(results.list[2])

--------------------------------------------------------------------------
(* Properties of allowFrom lists over sequences of patcher calls *)

\* The allowFrom of a channel or account entry ([] when absent).
AllowFromOf(o) == IF Has(o, "allowFrom") THEN o.allowFrom ELSE <<>>
TopAllowFrom(c, channel) == AllowFromOf(ObjAt(ObjAt(c, "channels"), channel))

\* How many entries of the list are "*".
WildcardCount(list) == Cardinality({i \in 1..Len(list) : list[i] = Wildcard})

\* One setChannelDmPolicyWithAllowFrom call, and two "open" calls in a row on
\* one channel.
WildcardStep ==
    lastOp'.op = "setChannelDmPolicy" =>
        LET channel == lastOp'.channel
            pre == TopAllowFrom(cfg, channel)
            post == TopAllowFrom(cfg', channel)
        IN  /\ Includes(pre, Wildcard) => Includes(post, Wildcard)
            /\ (~Includes(pre, Wildcard) /\ Includes(post, Wildcard)) =>
                  WildcardCount(post) = 1
            /\ ( /\ lastOp.op = "setChannelDmPolicy"
                 /\ lastOp.channel = channel
                 /\ lastOp.dmPolicy = "open"
                 /\ lastOp'.dmPolicy = "open" ) => post = pre

\* C17 as stated: over setChannelDmPolicyWithAllowFrom calls with any policy, a
\* top-level allowFrom that holds "*" holds it after every later call, "*"
\* occurs once when a call introduced it, and "open" applied twice in a row
\* gives the allowFrom of "open" applied once.
C17_WildcardPersists == [][WildcardStep]_vars

NoDuplicates(list) == \A i, j \in 1..Len(list) : i # j => list[i] # list[j]

\* Every allowFrom list of the snapshot, top-level or of an account, is
\* duplicate-free.
AllowFromListsAreSets(c) ==
    LET channels == ObjAt(c, "channels")
    IN  \A name \in DOMAIN channels :
            LET channel == channels[name]
                accounts == ObjAt(channel, "accounts")
            IN  /\ NoDuplicates(AllowFromOf(channel))
                /\ \A id \in DOMAIN accounts :
                      NoDuplicates(AllowFromOf(accounts[id]))

\* C18 as stated: from a snapshot whose allowFrom lists hold no duplicate
\* values, every allowFrom list holds no duplicate values after any sequence
\* of setAccountAllowFromForChannel calls with merged lists and
\* setChannelDmPolicyWithAllowFrom calls.
C18_AllowFromKeepsSetSemantics == AllowFromListsAreSets(cfg)

--------------------------------------------------------------------------
(* Properties of the rounds of promptResolvedAllowFrom *)

\* Every candidate of the round has an acceptable result among the results.
CandidatesAllAcceptable ==
    \A i \in 1..Len(parts) :
        \E j \in 1..Len(results.list) :
            results.list[j].input = parts[i] /\ Acceptable(results.list[j])

\* C14 as stated: in directory mode the loop returns in a round only if every
\* candidate of the round has an acceptable result, whatever list the
\* resolver returned; a round with a candidate without one ends in the notice
\* that precedes the re-prompt.
C14_AllCandidatesMustResolve ==
    (DirectoryMode /\ HasResults) =>
        /\ pc = "returned" => CandidatesAllAcceptable
        /\ ~CandidatesAllAcceptable =>
              /\ pc \in {"note", "rejected"}
              /\ pendingNote # None
              /\ outcome = None

\* The counts and the outstanding call at each position of the loop.
RoundCounts ==
    /\ pc \in {"text", "resolve", "returned"} =>
          /\ calls.text = calls.note + 1
          /\ pendingNote = None
    /\ pc = "note" =>
          /\ calls.text = calls.note
          /\ pendingNote # None
          /\ outcome = None
    /\ pc = "resolve" => DirectoryMode /\ calls.resolve = calls.text
    /\ pc = "rejected" => calls.text - calls.note \in {0, 1}
    /\ calls.resolve <= calls.text

\* The order of the calls: a step ends one awaited call and starts at most one.
RoundOrder ==
    /\ pc = "text" =>
          /\ pc' \in {"resolve", "note", "returned", "rejected"}
          /\ pc' = "resolve" => DirectoryMode /\ calls'.resolve = calls.resolve + 1
          /\ pc' \in {"note", "returned"} => LocalMode
    /\ pc = "resolve" => pc' \in {"note", "returned", "rejected"}
    /\ pc = "note" => pc' \in {"text", "rejected"}
    /\ pc \notin {"returned", "rejected"}
    /\ pc' = "text" => pc = "note" /\ calls'.text = calls.text + 1
    /\ pc' = "note" => calls'.note = calls.note + 1
    /\ pc' # "note" => calls'.note = calls.note
    /\ pc' # "text" => calls'.text = calls.text
    /\ pc' # "resolve" => calls'.resolve = calls.resolve

FullySuccessfulRound ==
    IF DirectoryMode
    THEN HasResults /\ CandidatesAllAcceptable
                    /\ \A i \in 1..Len(results.list) : Acceptable(results.list[i])
    ELSE Len(parsed) = Len(parts) /\ \A i \in 1..Len(parsed) : Accepted(parsed[i])

\* C16 as stated: the loop ends only by a return after a fully successful
\* round or by an abort of the prompter; a failed round leaves no result and
\* leads to the next prompt; with a prompter that never aborts and an
\* environment that eventually supplies a round that succeeds, the loop
\* eventually returns.
C16_ExitsOnlyBySuccessOrAbort ==
    /\ [](pc = "rejected" => failure = Some("prompter"))
    /\ [](pc = "returned" => FullySuccessfulRound)
    /\ [](pc = "note" => outcome = None)
    /\ (pc = "note") ~> (pc = "text")
    /\ <>(pc = "returned")

\* C19 as stated: every prompter.text call gets the caller's message and
\* placeholder, and as initial value the text of the first entry of existing
\* whenever there is a first entry, none when existing is empty.
C19_PromptSameEveryRound ==
    pc # "idle" =>
        textArg = [message |-> Message,
                   placeholder |-> Placeholder,
                   initialValue |-> IF existing # <<>>
                                    THEN Str(JsString(existing[1]))
                                    ELSE Undef]

\* The trimmed texts of the existing entries.
ExistingTexts == {Str(Trim(JsString(existing[k]))) : k \in 1..Len(existing)}

\* C20: a round without candidates succeeds: without a token the loop returns
\* mergeAllowFromEntries(existing, []) with no parseId call and no notice; with
\* a token the resolver is called once with no entries and, on an empty list,
\* the loop returns mergeAllowFromEntries(existing, []) with no notice; the
\* result holds nothing but existing entries.
C20_EmptyRoundSucceeds ==
    (entry # None /\ parts = <<>>) =>
        /\ LocalMode =>
              /\ pc = "returned"
              /\ parseIdArgs = <<>>
              /\ parsed = <<>>
        /\ DirectoryMode =>
              /\ resolveArg = Some([token |-> token, entries |-> <<>>])
              /\ calls.resolve = calls.text
              /\ results = List(<<>>) => pc = "returned"
        /\ pc = "returned" =>
              /\ outcome = Some(mergeAllowFromEntries(List(existing), <<>>))
              /\ pendingNote = None
              /\ calls.note = calls.text - 1
              /\ \A i \in 1..Len(outcome[1]) : outcome[1][i] \in ExistingTexts

\* The loop returns with a token on a line of separators only, the resolver
\* having answered the empty list, with two existing entries.
C20_Witness ==
    /\ pc = "returned"
    /\ DirectoryMode
    /\ entry = Some(<<",", ";">>)
    /\ parts = <<>>
    /\ results = List(<<>>)
    /\ Len(existing) = 2
    /\ Len(outcome[1]) = 2

--------------------------------------------------------------------------
(* Properties of resolveAccountIdForConfigure *)

\* The override is given and not blank.
NonBlankOverride ==
    IsStr(aOverride) /\ \E i \in 1..Len(aOverride.str) : aOverride.str[i] \notin Whitespace

\* C11: the account prompt is invoked if and only if prompting is permitted
\* and no non-blank override is given. A non-blank override gives the
\* normalized override and no prompt; no override and no permission give the
\* default; no override with permission gives one prompt, with the default as
\* currentId and defaultAccountId, whose answer is the result and whose failure
\* propagates.
C11_PromptIffPermittedAndNoOverride ==
    /\ aPromptCalls <= 1
    /\ aPc \in {"prompt", "returned", "rejected"} =>
          (aPromptCalls = 1 <=> (aShouldPrompt /\ ~NonBlankOverride))
    /\ aPromptArg # None =>
          /\ aPromptArg[1].currentId = aDefault
          /\ aPromptArg[1].defaultAccountId = aDefault
    /\ aPc = "returned" =>
          aResult = Some(IF NonBlankOverride THEN normalizeAccountId(aOverride.str)
                         ELSE IF aShouldPrompt THEN aAnswer[1]
                         ELSE aDefault)
    /\ aPc = "rejected" => aPromptCalls = 1 /\ aResult = None

\* Prompting is permitted and a non-blank override is given: the normalized
\* override is returned without a prompt.
C11_Witness ==
    /\ aPc = "returned"
    /\ aShouldPrompt
    /\ NonBlankOverride
    /\ aPromptCalls = 0
    /\ aResult # Some(aOverride.str)
    /\ aResult # Some(aDefault)

--------------------------------------------------------------------------
(* Properties of normalizeAllowFromEntries *)

\* The entries as trimmed text, empty ones left out, in order.
NormTexts ==
    SelectSeq([i \in 1..Len(nEntries) |-> Trim(JsString(nEntries[i]))],
              LAMBDA t : t # <<>>)

\* What one non-wildcard entry contributes: its text without a normalizer, the
\* trimmed answer of the normalizer otherwise, nothing for an absent or empty
\* answer.
Contribution(t) ==
    IF nNormalizer = "absent" THEN {Str(t)}
    ELSE LET value == ApplyNormalizer(nNormalizer, t)
         IN  IF IsStr(value) /\ Trim(value.str) # <<>>
             THEN {Str(Trim(value.str))} ELSE {}

\* C12: if an entry trims to "*" the output holds "*" exactly once and the
\* normalizer is never applied to it, whatever the normalizer; a non-wildcard
\* entry whose normalized value is absent or empty contributes nothing; the
\* output has no duplicate and no empty entry.
C12_WildcardExempt ==
    nOut # None =>
        LET out == nOut[1]
            hasWildcard == \E i \in 1..Len(NormTexts) : NormTexts[i] = <<"*">>
        IN  /\ hasWildcard => Cardinality({i \in 1..Len(out) : out[i] = Wildcard}) = 1
            /\ \A i \in 1..Len(nApplied) : nApplied[i] # Wildcard
            /\ \A i, j \in 1..Len(out) : i # j => out[i] # out[j]
            /\ \A i \in 1..Len(out) : out[i].str # <<>>
            /\ {out[i] : i \in 1..Len(out)} =
                  (IF hasWildcard THEN {Wildcard} ELSE {})
                  \cup UNION {Contribution(NormTexts[i]) :
                                i \in {j \in 1..Len(NormTexts) : NormTexts[j] # <<"*">>}}

\* Two wildcards, one untrimmed, and another entry, under a normalizer that
\* answers null for every value.
C12_Witness ==
    /\ nOut = Some(<<Wildcard>>)
    /\ nNormalizer = "null"
    /\ Len(nEntries) = 3
    /\ Len(nApplied) = 1
    /\ \E i \in 1..3 : nEntries[i] = Str(<<" ", "*", " ">>)
    /\ \E i \in 1..3 : nEntries[i] = Wildcard

--------------------------------------------------------------------------
(* Properties of splitOnboardingEntries *)

SplitChars == {"\n", ",", ";"}

\* The first positions of the maximal separator-free stretches of the text.
SegmentStarts ==
    {i \in 1..Len(sRaw) :
        sRaw[i] \notin SplitChars /\ (i = 1 \/ sRaw[i - 1] \in SplitChars)}

\* The stretch that starts at i.
SegmentAt(i) ==
    LET last == CHOOSE j \in i..Len(sRaw) :
                   /\ \A k \in i..j : sRaw[k] \notin SplitChars
                   /\ (j = Len(sRaw) \/ sRaw[j + 1] \in SplitChars)
    IN  SubSeq(sRaw, i, last)

RECURSIVE SegmentsFrom(_)
\* The trimmed non-empty stretches that start in S, in text order.
SegmentsFrom(S) ==
    IF S = {} THEN <<>>
    ELSE LET i == CHOOSE x \in S : \A y \in S : x <= y
             t == Trim(SegmentAt(i))
         IN  (IF t = <<>> THEN <<>> ELSE <<Str(t)>>) \o SegmentsFrom(S \ {i})

\* C13: splitOnboardingEntries returns, in input order, the trimmed non-empty
\* segments between runs of newline, comma and semicolon: no token is empty,
\* has whitespace at either end or holds a separator; the empty text gives the
\* empty sequence.
C13_SplitIsTrimmedSegments ==
    sOut # None =>
        LET out == sOut[1]
        IN  /\ out = SegmentsFrom(SegmentStarts)
            /\ \A i \in 1..Len(out) :
                  /\ out[i].str # <<>>
                  /\ out[i].str[1] \notin {" ", "\n"}
                  /\ out[i].str[Len(out[i].str)] \notin {" ", "\n"}
                  /\ \A k \in 1..Len(out[i].str) : out[i].str[k] \notin SplitChars
            /\ sRaw = <<>> => out = <<>>

\* Two tokens out of a text with a padded segment and a trailing separator.
C13_Witness ==
    /\ sOut = Some(<<Str(<<"a">>), Str(<<"b">>)>>)
    /\ sRaw = <<" ", "a", ",", "b">>

==========================================================================
